---- MODULE Spec2Model ----
(***************************************************************************)
(* A model of 30licheng.py: the single-file Streamlit career-planning      *)
(* assistant.  The persisted state is the SQLite store (one User row with  *)
(* profile_data and chat_history, its CareerTarget rows and ProgressLog    *)
(* rows); the session state is st.session_state.current_view.  Every       *)
(* action is one user interaction: the button handler together with the    *)
(* script rerun it triggers.                                               *)
(***************************************************************************)
EXTENDS Integers, Sequences, FiniteSets, TLC

VARIABLES
    career_targets,   \* User.career_targets: the CareerTarget rows, in insertion order
    progress_logs,    \* User.progress_logs: the ProgressLog rows, in insertion order
    chat_history,     \* User.chat_history: a dict from mode key to a list of messages
    profile_data,     \* User.profile_data
    current_view,     \* st.session_state.current_view
    search_tool,      \* the module global search_tool: TRUE when configured
    last_step,        \* the last interaction and how its script run ended
    parse_arg,        \* extract_json_from_llm called on its own: the argument text_content
    parse_ret         \* extract_json_from_llm called on its own: how the call ended

\* the call of extract_json_from_llm on its own
parser == <<parse_arg, parse_ret>>

vars == <<career_targets, progress_logs, chat_history, profile_data,
          current_view, search_tool, last_step, parser>>

(***************************************************************************)
(* Bounds of the model.                                                    *)
(***************************************************************************)
\* the largest number of CareerTarget rows the store holds in the model
MaxTargets == 3
\* the largest number of ProgressLog rows
MaxLogs == 1
\* the largest number of messages in the chat history
MaxChat == 6
\* the largest number of ProgressLog rows where the claims are about the logs
MaxLogsKept == 2
\* the largest number of tokens of a text given to extract_json_from_llm
MaxLen == 6

\* the job names the user can research
Names == {"A", "B"}

(***************************************************************************)
(* Values.  Python's None for a Text column is NoText and for a JSON       *)
(* column is None.  An LLM response is a sequence of tokens: prose tokens, *)
(* the opening fence (OPEN: three backquotes and json), a closing fence    *)
(* (CLOSE: three backquotes) and the text inside a fence (a J_ token).     *)
(***************************************************************************)
None == "None"
NoText == <<"<None>">>
OPEN == "FENCE_JSON"
CLOSE == "FENCE"

\* white space: the pattern strips it around the captured text
WS == "WS"

\* json.loads on the text between the fences: the value of the one JSON
\* document it holds, or the exception json.JSONDecodeError
JSONDecodeError == "raise JSONDecodeError"
json_loads(content) ==
    IF content = <<"J_dict">> THEN "dict"
    ELSE IF content = <<"J_emptydict">> THEN "emptydict"
    ELSE IF content = <<"J_list">> THEN "list"
    ELSE IF content = <<"J_str">> THEN "str:foo"
    ELSE IF content = <<"J_null">> THEN None
    ELSE JSONDecodeError

\* the position of the first token of text at or after i that is in S, 0 if none
RECURSIVE find(_, _, _)
find(text, i, S) ==
    IF i > Len(text) THEN 0
    ELSE IF text[i] \in S THEN i
    ELSE find(text, i + 1, S)

\* re.search of the fenced-json pattern: the first opening fence and the nearest
\* three backquotes after it, which may themselves start another opening fence
\* the pattern with a greedy capture: the text up to the last three backquotes
extract_json_from_llm_greedy(text) ==
    LET open == find(text, 1, {OPEN})
        closes == {j \in (open + 1)..Len(text) : text[j] \in {OPEN, CLOSE}}
    IN IF open = 0 \/ closes = {} THEN None
       ELSE LET close == CHOOSE j \in closes : \A k \in closes : k <= j
                loaded == json_loads(SelectSeq(SubSeq(text, open + 1, close - 1),
                                               LAMBDA tok : tok /= WS))
            IN IF loaded = JSONDecodeError THEN None ELSE loaded

\* the white space around the captured text is not captured, and json.loads
\* skips the white space around the tokens of the document
strip(content) == SelectSeq(content, LAMBDA tok : tok /= WS)
extract_json_from_llm(text) ==
    LET open == find(text, 1, {OPEN})
        close == IF open = 0 THEN 0 ELSE find(text, open + 1, {OPEN, CLOSE})
    IN IF close = 0 THEN None
       ELSE LET loaded == json_loads(strip(SubSeq(text, open + 1, close - 1)))
            IN IF loaded = JSONDecodeError THEN None ELSE loaded

\* the text content of a research that keeps the fenced block
text_part_whole(raw) == raw

\* raw.split(OPEN)[0].strip(): everything before the first opening fence
text_part(raw) ==
    LET open == find(raw, 1, {OPEN})
    IN IF open = 0 THEN raw ELSE SubSeq(raw, 1, open - 1)

\* Python truthiness of a Text value and of a JSON value
truthy_text(v) == v /= NoText /\ v /= <<>>
truthy_json(v) == v \notin {None, "emptydict", "emptylist", "str:"}
isinstance_str(v) == v \in {"str:", "str:foo"}
isinstance_dict(v) == v \in {"dict", "emptydict"}

\* what the LLM can return for a research report
ResearchResponses ==
    { <<"report1", OPEN, "J_dict", CLOSE>>, <<"report2">> }
\* what the LLM can return for an action plan
PlanResponses ==
    { <<"plan", OPEN, "J_dict", CLOSE>>, <<"plan_without_json">> }
\* the same, and the plans whose fenced block holds an empty dictionary, a
\* list or a string
PlanResponsesAll ==
    PlanResponses \cup { <<"plan", OPEN, "J_emptydict", CLOSE>>,
                         <<"plan", OPEN, "J_list", CLOSE>>,
                         <<"plan", OPEN, "J_str", CLOSE>> }
\* what the LLM can return for a validation plan, a feedback analysis, a trend
\* report and the suggestions
PlainResponses == { <<"text">> }
\* the fixed message of research_job_service and generate_trends_report_service
\* when search_tool is None
SEARCH_UNAVAILABLE == <<"search_unavailable">>

\* how a call of the LLM ends: a response, APITimeoutError, another exception
LLMOutcomes == {"ok", "timeout", "error"}

Statuses == {"researching", "active", "paused", "planning_done"}
Views == {"dashboard", "mode1", "mode2", "mode3", "mode4"}
Modes == {"mode1", "mode2", "mode3", "mode4"}

EmptyProfile == "{}"
\* a profile is the dict updated_profile that the form builds from its fields
Profiles == {"profile1"}
ProfilesKept == {"profile1", "profile2"}
Feedbacks == {"feedback1"}

(***************************************************************************)
(* The store.                                                              *)
(***************************************************************************)
Indices(ts) == 1..Len(ts)

\* CareerTarget(name=..., user_id=...): the column defaults.  A row is
\* identified by its position in the table, which stands for its uuid
CareerTarget(name) ==
    [name |-> name, status |-> "researching",
     research_report |-> NoText, research_chart_data |-> None,
     validation_plan |-> NoText, action_plan |-> None]

\* db.query(CareerTarget).filter_by(name=...).first(): the position of the
\* first row with this name, 0 if none
RECURSIVE first_by_name(_, _, _)
first_by_name(ts, name, i) ==
    IF i > Len(ts) THEN 0
    ELSE IF ts[i].name = name THEN i
    ELSE first_by_name(ts, name, i + 1)

\* db.delete(target); db.commit(): the row at position at is removed
delete_row(ts, at) == SubSeq(ts, 1, at - 1) \o SubSeq(ts, at + 1, Len(ts))

\* any(t.status in statuses for t in targets), evaluated left to right
RECURSIVE any_status(_, _)
any_status(ts, statuses) ==
    IF ts = <<>> THEN FALSE
    ELSE IF Head(ts).status \in statuses THEN TRUE
    ELSE any_status(Tail(ts), statuses)

\* [t for t in targets if t.status in statuses]
RECURSIVE filter_status(_, _)
filter_status(ts, statuses) ==
    IF ts = <<>> THEN <<>>
    ELSE IF Head(ts).status \in statuses
         THEN <<Head(ts)>> \o filter_status(Tail(ts), statuses)
         ELSE filter_status(Tail(ts), statuses)

\* {t.name: t for t in targets if t.status in statuses}: the keys, and the
\* position of the row a key selects (the last such row with that name)
listed(ts, statuses) == {i \in Indices(ts) : ts[i].status \in statuses}
option_names(ts, statuses) == {ts[i].name : i \in listed(ts, statuses)}
option_target(ts, statuses, name) ==
    CHOOSE i \in listed(ts, statuses) :
        /\ ts[i].name = name
        /\ \A k \in listed(ts, statuses) : ts[k].name = name => k <= i

\* update_chat_history that keeps the last exchange of a mode only
update_chat_history_last_only(history, mode_key, human_msg, ai_msg) ==
    IF DOMAIN history = {}
    THEN history
    ELSE [k \in DOMAIN history \cup {mode_key} |->
             IF k = mode_key
             THEN <<[role |-> "user", content |-> human_msg],
                    [role |-> "assistant", content |-> ai_msg]>>
             ELSE history[k]]

\* update_chat_history: history is user.chat_history unless that is empty (or
\* None), and then it is a new dict that is never assigned back to the user
dict_get(d, key) == IF key \in DOMAIN d THEN d[key] ELSE <<>>
update_chat_history(history, mode_key, human_msg, ai_msg) ==
    IF DOMAIN history = {}
    THEN history
    ELSE [k \in DOMAIN history \cup {mode_key} |->
             IF k = mode_key
             THEN dict_get(history, mode_key)
                  \o <<[role |-> "user", content |-> human_msg],
                       [role |-> "assistant", content |-> ai_msg]>>
             ELSE history[k]]

\* the number of messages in the chat history
RECURSIVE messages(_, _)
messages(history, keys) ==
    IF keys = {} THEN 0
    ELSE LET k == CHOOSE x \in keys : TRUE
         IN Len(history[k]) + messages(history, keys \ {k})

\* the chat history has room for one more exchange
chat_room(mode_key) ==
    messages(chat_history, DOMAIN chat_history) + 2 <= MaxChat

(***************************************************************************)
(* WorkflowGate: the unlock conditions, one definition per place that      *)
(* computes them.                                                          *)
(***************************************************************************)
MODE2_STATUSES == {"researching", "active", "paused", "planning_done"}
MODE3_STATUSES == {"active", "planning_done"}

\* render_dashboard
dash_is_mode2_enabled == any_status(career_targets, MODE2_STATUSES)
dash_is_mode3_enabled == any_status(career_targets, MODE3_STATUSES)
dash_is_mode4_enabled == dash_is_mode3_enabled
dash_enabled(item) ==
    CASE item = "mode1" -> TRUE
      [] item = "mode2" -> dash_is_mode2_enabled
      [] item = "mode3" -> dash_is_mode3_enabled
      [] item = "mode4" -> dash_is_mode4_enabled

\* main: the sidebar
nav_is_mode2_enabled_without_planning_done ==
    any_status(career_targets, {"researching", "active", "paused"})
nav_is_mode4_enabled_after_plan == any_status(career_targets, {"planning_done"})
nav_is_mode2_enabled == any_status(career_targets, MODE2_STATUSES)
nav_is_mode3_enabled == any_status(career_targets, MODE3_STATUSES)
nav_is_mode4_enabled == nav_is_mode3_enabled
nav_items(item) ==
    CASE item = "mode1" -> TRUE
      [] item = "mode2" -> nav_is_mode2_enabled
      [] item = "mode3" -> nav_is_mode3_enabled
      [] item = "mode4" -> nav_is_mode4_enabled

\* the next-step guides at the end of render_mode1, render_mode2, render_mode3
m1_is_mode2_enabled == any_status(career_targets, MODE2_STATUSES)
m2_is_mode3_enabled_active_only == any_status(career_targets, {"active"})
m2_is_mode3_enabled == any_status(career_targets, MODE3_STATUSES)
m3_is_mode4_enabled == any_status(career_targets, {"planning_done"})

\* the lists the mode views offer for selection
EVAL_STATUSES == {"researching", "active", "paused"}
ACTIVE_STATUSES_with_paused == {"active", "planning_done", "paused"}
ACTIVE_STATUSES == {"active", "planning_done"}
TREND_STATUSES == {"active", "planning_done"}
targets_for_eval == filter_status(career_targets, EVAL_STATUSES)
active_targets == filter_status(career_targets, ACTIVE_STATUSES)
trend_targets == filter_status(career_targets, TREND_STATUSES)

\* the last script run ended in an uncaught exception: the widgets after the
\* failing call were not rendered
script_aborted == last_step.outcome = "uncaught"

\* an interaction: the handler that ran, the target or the item it ran on, how
\* the script run ended, the raw text the service returned (reply), how the
\* three search queries ended (searches) and the search_context of every
\* invocation of the LLM chain (llm_calls)
NoSearch == <<>>
Step(op, name, outcome) ==
    [op |-> op, name |-> name, outcome |-> outcome,
     reply |-> <<>>, searches |-> NoSearch, llm_calls |-> <<>>]
\* the step of a service that invokes the LLM once, without a search context
LLMStep(op, name, outcome, reply) ==
    [Step(op, name, outcome) EXCEPT !.reply = reply, !.llm_calls = << <<>> >>]

(***************************************************************************)
(* Initial state: a new database and a new session.                        *)
(***************************************************************************)
Init ==
    /\ career_targets = <<>>
    /\ progress_logs = <<>>
    /\ chat_history = <<>>
    /\ profile_data = EmptyProfile
    /\ current_view = "dashboard"
    /\ search_tool \in BOOLEAN
    /\ last_step = Step("start", "", "ok")
    /\ parse_arg = <<>>
    /\ parse_ret = "not called"

(***************************************************************************)
(* Navigation: main (the sidebar), render_dashboard and the guides.        *)
(***************************************************************************)
DbUnchanged == UNCHANGED <<career_targets, progress_logs, chat_history, profile_data>>

\* the sidebar button of the dashboard
SidebarDashboard ==
    /\ current_view' = "dashboard"
    /\ last_step' = Step("nav", "dashboard", "ok")
    /\ DbUnchanged /\ UNCHANGED <<search_tool, parser>>

\* the sidebar with every button of a mode enabled
SidebarNav_any_item(item) ==
    /\ current_view' = item
    /\ last_step' = Step("nav", item, "ok")
    /\ DbUnchanged /\ UNCHANGED <<search_tool, parser>>

\* a sidebar button of a mode, disabled unless nav_items says enabled
SidebarNav(item) ==
    /\ nav_items(item)
    /\ current_view' = item
    /\ last_step' = Step("nav", item, "ok")
    /\ DbUnchanged /\ UNCHANGED <<search_tool, parser>>

\* a button of the dashboard, disabled unless the mode is enabled
DashboardEnter(item) ==
    /\ current_view = "dashboard"
    /\ dash_enabled(item)
    /\ current_view' = item
    /\ last_step' = Step("nav", item, "ok")
    /\ DbUnchanged /\ UNCHANGED <<search_tool, parser>>

\* the guide at the end of render_mode1
Mode1Guide ==
    /\ current_view = "mode1"
    /\ m1_is_mode2_enabled
    /\ current_view' = "mode2"
    /\ last_step' = Step("guide", "mode2", "ok")
    /\ DbUnchanged /\ UNCHANGED <<search_tool, parser>>

\* the guide at the end of render_mode2: not reached when the view returned
\* early or the run was aborted
Mode2Guide ==
    /\ current_view = "mode2"
    /\ targets_for_eval /= <<>>
    /\ ~script_aborted
    /\ m2_is_mode3_enabled
    /\ current_view' = "mode3"
    /\ last_step' = Step("guide", "mode3", "ok")
    /\ DbUnchanged /\ UNCHANGED <<search_tool, parser>>

\* the guide at the end of render_mode3
Mode3Guide ==
    /\ current_view = "mode3"
    /\ active_targets /= <<>>
    /\ ~script_aborted
    /\ m3_is_mode4_enabled
    /\ current_view' = "mode4"
    /\ last_step' = Step("guide", "mode4", "ok")
    /\ DbUnchanged /\ UNCHANGED <<search_tool, parser>>

(***************************************************************************)
(* The services with a search: research_job_service and                    *)
(* generate_trends_report_service.  Each runs three queries, collects the  *)
(* snippets of the first two results of every query that does not raise,   *)
(* and invokes the LLM chain once.                                         *)
(***************************************************************************)
QUERIES == 1..3
\* how one query ends: an exception, no organic results, results of which the
\* first has no snippet, results with snippets
SearchOutcomes == {"failed", "empty", "partial", "hits"}
ALL_HITS == <<"hits", "hits", "hits">>
\* the ways the three queries end: every set of failing queries beside
\* queries with results, and queries without results or without snippets
Failing == {"failed", "hits"}
AllSearches ==
    {<<a, b, c>> : a \in Failing, b \in Failing, c \in Failing}
        \cup {<<"partial", "failed", "empty">>, <<"empty", "empty", "failed">>,
              <<"empty", "partial", "hits">>, <<"empty", "empty", "empty">>}

\* search_tool(params).get_dict().get("organic_results", []) of query q
NoSnippet == <<>>
organic_results(q, how) ==
    CASE how = "hits" -> <<[snippet |-> <<"snippet", q, 1>>],
                           [snippet |-> <<"snippet", q, 2>>],
                           [snippet |-> <<"snippet", q, 3>>]>>
      [] how = "partial" -> <<[snippet |-> NoSnippet], [snippet |-> <<"snippet", q, 2>>]>>
      [] how = "empty" -> <<>>

\* results[:2]
first_two(results) == SubSeq(results, 1, IF Len(results) < 2 THEN Len(results) ELSE 2)

\* for result in results[:2]: if snippet := result.get('snippet'): search_context += ...
RECURSIVE add_snippets(_, _)
add_snippets(results, search_context) ==
    IF results = <<>> THEN search_context
    ELSE add_snippets(Tail(results),
                      IF Head(results).snippet /= NoSnippet
                      THEN Append(search_context, Head(results).snippet)
                      ELSE search_context)

\* the loop inside the try: the first query that raises ends the search
RECURSIVE search_loop_try_outside(_, _, _)
search_loop_try_outside(searches, q, search_context) ==
    IF q \notin QUERIES \/ searches[q] = "failed" THEN search_context
    ELSE search_loop_try_outside(searches, q + 1,
                                 add_snippets(first_two(organic_results(q, searches[q])),
                                              search_context))

\* for query in queries: try: ... except Exception: st.error(...)
RECURSIVE search_loop(_, _, _)
search_loop(searches, q, search_context) ==
    IF q \notin QUERIES THEN search_context
    ELSE search_loop(searches, q + 1,
                     IF searches[q] = "failed"
                     THEN search_context
                     ELSE add_snippets(first_two(organic_results(q, searches[q])),
                                       search_context))

\* search_context or the fixed text for no information
NO_INFO == << <<"no_info">> >>
prompt_context(search_context) ==
    IF search_context = <<>> THEN NO_INFO ELSE search_context

\* the search_context the chain is invoked with, for every way the queries end
invoked_with == [searches \in AllSearches |-> prompt_context(search_loop(searches, 1, <<>>))]

\* the step of a service with a search: without search_tool the service
\* returns before the queries and the LLM
SearchStep(op, name, outcome, reply, searches) ==
    IF search_tool
    THEN [Step(op, name, outcome) EXCEPT
             !.reply = reply,
             !.searches = searches,
             !.llm_calls = <<invoked_with[searches]>>]
    ELSE [Step(op, name, outcome) EXCEPT !.reply = reply]

(***************************************************************************)
(* Mode 1: render_mode1.                                                   *)
(***************************************************************************)
\* the suggestions the LLM can return
SuggestionResponses == { <<"analysis", OPEN, "J_dict", CLOSE>>, <<"analysis_only">> }
\* the same, with a fenced block that holds a JSON list
SuggestionResponsesKept == SuggestionResponses \cup { <<"analysis", OPEN, "J_list", CLOSE>> }

\* the profile form: the profile is committed, then the suggestions are asked for
SaveProfileOk(profile, raw_content) ==
    /\ current_view = "mode1"
    /\ chat_room("mode1")
    /\ profile_data' = profile
    /\ LET parsed_json == extract_json_from_llm(raw_content)
       IN IF truthy_json(parsed_json) /\ ~isinstance_dict(parsed_json)
          THEN \* parsed_json.get raises and is caught by except Exception
               /\ chat_history' = chat_history
               /\ last_step' = LLMStep("suggest", profile, "error_shown", raw_content)
          ELSE /\ chat_history' = update_chat_history(chat_history, "mode1",
                                      <<"H_profile">>, raw_content)
               /\ last_step' = LLMStep("suggest", profile, "ok", raw_content)
    /\ UNCHANGED <<career_targets, progress_logs, current_view, search_tool, parser>>

\* SaveProfileFail with the profile committed after the suggestions
SaveProfileFail_commit_last(profile, outcome) ==
    /\ current_view = "mode1"
    /\ outcome \in {"timeout", "error"}
    /\ last_step' = LLMStep("suggest", profile, "error_shown", <<>>)
    /\ DbUnchanged /\ UNCHANGED <<current_view, search_tool, parser>>

SaveProfileFail(profile, outcome) ==
    /\ current_view = "mode1"
    /\ outcome \in {"timeout", "error"}
    /\ profile_data' = profile
    /\ last_step' = LLMStep("suggest", profile, "error_shown", <<>>)
    /\ UNCHANGED <<career_targets, progress_logs, chat_history, current_view, search_tool, parser>>

\* store_research without the lookup by name: a row is added every time
store_research_always_add(ts, name, text_content, chart_data) ==
    Append(ts, [CareerTarget(name) EXCEPT !.research_report = text_content,
                                          !.research_chart_data = chart_data])

\* store_research keeping the chart data it has when the new report has none
store_research_keep_chart(ts, name, text_content, chart_data) ==
    LET found == first_by_name(ts, name, 1)
        rows == IF found = 0 THEN Append(ts, CareerTarget(name)) ELSE ts
        at == IF found = 0 THEN Len(rows) ELSE found
    IN [rows EXCEPT ![at].research_report = text_content,
                    ![at].research_chart_data =
                        IF chart_data = None THEN rows[at].research_chart_data ELSE chart_data,
                    ![at].status = "researching"]

\* store_research starting the target over: the validation plan is cleared
store_research_reset_plan(ts, name, text_content, chart_data) ==
    LET found == first_by_name(ts, name, 1)
        rows == IF found = 0 THEN Append(ts, CareerTarget(name)) ELSE ts
        at == IF found = 0 THEN Len(rows) ELSE found
    IN [rows EXCEPT ![at].research_report = text_content,
                    ![at].research_chart_data = chart_data,
                    ![at].validation_plan = NoText,
                    ![at].status = "researching"]

\* lines 482-490: look the target up by name, create it if absent, store the report
store_research(ts, name, text_content, chart_data) ==
    LET found == first_by_name(ts, name, 1)
        rows == IF found = 0 THEN Append(ts, CareerTarget(name)) ELSE ts
        at == IF found = 0 THEN Len(rows) ELSE found
    IN [rows EXCEPT ![at].research_report = text_content,
                    ![at].research_chart_data = chart_data,
                    ![at].status = "researching"]

\* a research button and the rerun that runs the research: raw_report is the
\* response of the LLM, or the fixed message when search_tool is None
ResearchOk(name, response, searches) ==
    /\ current_view = "mode1"
    /\ chat_room("mode1")
    /\ first_by_name(career_targets, name, 1) = 0 => Len(career_targets) < MaxTargets
    /\ LET raw_report == IF search_tool THEN response ELSE SEARCH_UNAVAILABLE
           text_content == text_part(raw_report)
           chart_data == extract_json_from_llm(raw_report)
       IN /\ career_targets' = store_research(career_targets, name, text_content, chart_data)
          /\ chat_history' = update_chat_history(chat_history, "mode1",
                                 <<"H_research", name>>, text_content)
          /\ last_step' = SearchStep("research", name, "ok", raw_report, searches)
    /\ UNCHANGED <<progress_logs, profile_data, current_view, search_tool, parser>>

\* ResearchFail with the target created before the LLM is called
ResearchFail_target_first(name, outcome, searches) ==
    /\ current_view = "mode1"
    /\ search_tool
    /\ outcome \in {"timeout", "error"}
    /\ first_by_name(career_targets, name, 1) = 0
    /\ Len(career_targets) < MaxTargets
    /\ career_targets' = Append(career_targets, CareerTarget(name))
    /\ last_step' = SearchStep("research", name, "error_shown", <<>>, searches)
    /\ UNCHANGED <<progress_logs, chat_history, profile_data, current_view, search_tool, parser>>

\* the LLM call of the research raises: caught at lines 495-498
ResearchFail(name, outcome, searches) ==
    /\ current_view = "mode1"
    /\ search_tool
    /\ outcome \in {"timeout", "error"}
    /\ last_step' = SearchStep("research", name, "error_shown", <<>>, searches)
    /\ DbUnchanged /\ UNCHANGED <<current_view, search_tool, parser>>

(***************************************************************************)
(* Mode 2: render_mode2.  The view returns early when targets_for_eval is  *)
(* empty; otherwise the user selects one of its names.                     *)
(***************************************************************************)
Mode2Selected(name) ==
    /\ current_view = "mode2"
    /\ name \in option_names(career_targets, EVAL_STATUSES)

\* button 1: offered while the validation plan is falsy
GenerateValidationPlanOk(name, plan) ==
    /\ Mode2Selected(name)
    /\ LET target == option_target(career_targets, EVAL_STATUSES, name)
       IN /\ ~truthy_text(career_targets[target].validation_plan)
          /\ career_targets' = [career_targets EXCEPT ![target].validation_plan = plan]
    /\ last_step' = LLMStep("validation_plan", name, "ok", plan)
    /\ UNCHANGED <<progress_logs, chat_history, profile_data, current_view, search_tool, parser>>

\* the LLM call raises: nothing catches it
GenerateValidationPlanFail(name, outcome) ==
    /\ Mode2Selected(name)
    /\ ~truthy_text(career_targets[option_target(career_targets, EVAL_STATUSES, name)].validation_plan)
    /\ outcome \in {"timeout", "error"}
    /\ last_step' = LLMStep("validation_plan", name, "uncaught", <<>>)
    /\ DbUnchanged /\ UNCHANGED <<current_view, search_tool, parser>>

\* ProgressLog(date=..., log=..., target_name=...): the id, a uuid, is given
\* when the row is added
ProgressLog(target_name, feedback_text) ==
    [id |-> 0, target_name |-> target_name, log |-> <<"feedback_label", feedback_text>>]

\* a table that keeps the latest feedback only
add_log_latest_only(logs, new_log) == <<[new_log EXCEPT !.id = Len(logs) + 1]>>

\* db.add(log_entry): the uuid of the row is its number in the table
add_log(logs, new_log) == Append(logs, [new_log EXCEPT !.id = Len(logs) + 1])

\* the feedback form rendered without a validation plan
SubmitFeedbackOk_without_plan(name, feedback_text, analysis, max_logs) ==
    /\ Mode2Selected(name)
    /\ Len(progress_logs) < max_logs
    /\ chat_room("mode2")
    /\ progress_logs' = add_log(progress_logs, ProgressLog(name, feedback_text))
    /\ chat_history' = update_chat_history(chat_history, "mode2",
                           <<"H_feedback", name, feedback_text>>, analysis)
    /\ last_step' = LLMStep("feedback", name, "ok", analysis)
    /\ UNCHANGED <<career_targets, profile_data, current_view, search_tool, parser>>

\* the feedback form, rendered once the target has a validation plan; the
\* store holds max_logs rows at most
SubmitFeedbackOk(name, feedback_text, analysis, max_logs) ==
    /\ Mode2Selected(name)
    /\ truthy_text(career_targets[option_target(career_targets, EVAL_STATUSES, name)].validation_plan)
    /\ Len(progress_logs) < max_logs
    /\ chat_room("mode2")
    /\ progress_logs' = add_log(progress_logs, ProgressLog(name, feedback_text))
    /\ chat_history' = update_chat_history(chat_history, "mode2",
                           <<"H_feedback", name, feedback_text>>, analysis)
    /\ last_step' = LLMStep("feedback", name, "ok", analysis)
    /\ UNCHANGED <<career_targets, profile_data, current_view, search_tool, parser>>

\* the analysis call raises: nothing catches it
SubmitFeedbackFail(name, outcome) ==
    /\ Mode2Selected(name)
    /\ truthy_text(career_targets[option_target(career_targets, EVAL_STATUSES, name)].validation_plan)
    /\ outcome \in {"timeout", "error"}
    /\ last_step' = LLMStep("feedback", name, "uncaught", <<>>)
    /\ DbUnchanged /\ UNCHANGED <<current_view, search_tool, parser>>

\* the form submitted with an empty text: the condition of line 592 is false
SubmitFeedbackEmpty(name) ==
    /\ Mode2Selected(name)
    /\ truthy_text(career_targets[option_target(career_targets, EVAL_STATUSES, name)].validation_plan)
    /\ last_step' = Step("feedback_empty", name, "ok")
    /\ DbUnchanged /\ UNCHANGED <<current_view, search_tool, parser>>

\* a change of status that starts the evaluation of the target over
set_status_clearing_plan(ts, target, new_status) ==
    [ts EXCEPT ![target].status = new_status,
               ![target].validation_plan = NoText]

\* target.status = new_status; db.commit()
set_status(ts, target, new_status) ==
    [ts EXCEPT ![target].status = new_status]

\* the three decision buttons of the selected target, rendered after the plan
\* and the feedback form
decision_offered(name) ==
    /\ Mode2Selected(name)
    /\ ~script_aborted

Activate(name) ==
    /\ decision_offered(name)
    /\ career_targets' =
           set_status(career_targets, option_target(career_targets, EVAL_STATUSES, name), "active")
    /\ last_step' = Step("activate", name, "ok")
    /\ UNCHANGED <<progress_logs, chat_history, profile_data, current_view, search_tool, parser>>

Pause(name) ==
    /\ decision_offered(name)
    /\ career_targets' =
           set_status(career_targets, option_target(career_targets, EVAL_STATUSES, name), "paused")
    /\ last_step' = Step("pause", name, "ok")
    /\ UNCHANGED <<progress_logs, chat_history, profile_data, current_view, search_tool, parser>>

\* a delete that cascades to the logs carrying the name of the target
logs_after_delete_cascade(logs, target) ==
    SelectSeq(logs, LAMBDA l : l.target_name /= target.name)

\* what db.delete(target); db.commit() leaves of the progress logs: the rows of
\* ProgressLog hang on the user, not on the target
logs_after_delete(logs, target) == logs

Abandon(name) ==
    /\ decision_offered(name)
    /\ LET target == option_target(career_targets, EVAL_STATUSES, name)
       IN /\ career_targets' = delete_row(career_targets, target)
          /\ progress_logs' = logs_after_delete(progress_logs, career_targets[target])
    /\ last_step' = Step("abandon", name, "ok")
    /\ UNCHANGED <<chat_history, profile_data, current_view, search_tool, parser>>

(***************************************************************************)
(* Mode 3: render_mode3.                                                   *)
(***************************************************************************)
Mode3Selected(name) ==
    /\ current_view = "mode3"
    /\ name \in option_names(career_targets, ACTIVE_STATUSES)

\* the generation button offered for a falsy plan only
plan_button_offered_falsy_only(target) ==
    ~truthy_json(target.action_plan)

\* line 667: the generation button is offered
plan_button_offered(target) ==
    ~truthy_json(target.action_plan) \/ isinstance_str(target.action_plan)

\* line 682: the stored plan is displayed
plan_displayed(target) ==
    truthy_json(target.action_plan) /\ isinstance_dict(target.action_plan)

\* store_action_plan writing the status of the research step
store_action_plan_researching(ts, target, plan_json) ==
    [ts EXCEPT ![target].action_plan = plan_json,
               ![target].status = "researching"]

\* store_action_plan without the change of status
store_action_plan_keeps_status(ts, target, plan_json) ==
    [ts EXCEPT ![target].action_plan = plan_json]

\* lines 673-674
store_action_plan(ts, target, plan_json) ==
    [ts EXCEPT ![target].action_plan = plan_json,
               ![target].status = "planning_done"]

GenerateActionPlanOk(name, raw_plan) ==
    /\ Mode3Selected(name)
    /\ chat_room("mode3")
    /\ LET target == option_target(career_targets, ACTIVE_STATUSES, name)
       IN /\ plan_button_offered(career_targets[target])
          /\ career_targets' =
                 store_action_plan(career_targets, target, extract_json_from_llm(raw_plan))
    /\ chat_history' = update_chat_history(chat_history, "mode3",
                           <<"H_plan", name>>, raw_plan)
    /\ last_step' = LLMStep("action_plan", name, "ok", raw_plan)
    /\ UNCHANGED <<progress_logs, profile_data, current_view, search_tool, parser>>

\* the LLM call raises: nothing catches it
GenerateActionPlanFail(name, outcome) ==
    /\ Mode3Selected(name)
    /\ plan_button_offered(career_targets[option_target(career_targets, ACTIVE_STATUSES, name)])
    /\ outcome \in {"timeout", "error"}
    /\ last_step' = LLMStep("action_plan", name, "uncaught", <<>>)
    /\ DbUnchanged /\ UNCHANGED <<current_view, search_tool, parser>>

(***************************************************************************)
(* Mode 4: render_mode4.                                                   *)
(***************************************************************************)
Mode4Selected(name) ==
    /\ current_view = "mode4"
    /\ name \in option_names(career_targets, TREND_STATUSES)

\* the report is the response of the LLM, or the fixed message when
\* search_tool is None; it is kept in the chat history only
GenerateTrendsOk(name, response, searches) ==
    /\ Mode4Selected(name)
    /\ chat_room("mode4")
    /\ LET report == IF search_tool THEN response ELSE SEARCH_UNAVAILABLE
       IN /\ chat_history' = update_chat_history(chat_history, "mode4",
                                 <<"H_trends", name>>, report)
          /\ last_step' = SearchStep("trends", name, "ok", report, searches)
    /\ UNCHANGED <<career_targets, progress_logs, profile_data, current_view, search_tool, parser>>

\* the LLM call raises: nothing catches it
GenerateTrendsFail(name, outcome, searches) ==
    /\ Mode4Selected(name)
    /\ search_tool
    /\ outcome \in {"timeout", "error"}
    /\ last_step' = SearchStep("trends", name, "uncaught", <<>>, searches)
    /\ DbUnchanged /\ UNCHANGED <<current_view, search_tool, parser>>

(***************************************************************************)
(* The specification.                                                      *)
(***************************************************************************)
Failures == {"timeout", "error"}

\* what the user and the services put in: the names researched, the responses
\* of the LLM, how the search queries end, and the size of the log table
Inputs ==
    [names |-> Names,
     profiles |-> Profiles,
     suggestions |-> SuggestionResponses,
     reports |-> ResearchResponses,
     searches |-> {ALL_HITS},
     plans |-> PlanResponses,
     max_logs |-> MaxLogs]

\* one interaction, with its inputs drawn from in
NextWith(in) ==
    \/ SidebarDashboard
    \/ \E item \in Modes : SidebarNav(item)
    \/ \E item \in Modes : DashboardEnter(item)
    \/ Mode1Guide
    \/ Mode2Guide
    \/ Mode3Guide
    \/ \E profile \in in.profiles, raw \in in.suggestions : SaveProfileOk(profile, raw)
    \/ \E profile \in in.profiles, outcome \in Failures : SaveProfileFail(profile, outcome)
    \/ \E name \in in.names, response \in in.reports, searches \in in.searches :
           ResearchOk(name, response, searches)
    \/ \E name \in in.names, outcome \in Failures, searches \in in.searches :
           ResearchFail(name, outcome, searches)
    \/ \E name \in Names, plan \in PlainResponses : GenerateValidationPlanOk(name, plan)
    \/ \E name \in Names, outcome \in Failures : GenerateValidationPlanFail(name, outcome)
    \/ \E name \in Names, fb \in Feedbacks, analysis \in PlainResponses :
           SubmitFeedbackOk(name, fb, analysis, in.max_logs)
    \/ \E name \in Names, outcome \in Failures : SubmitFeedbackFail(name, outcome)
    \/ \E name \in Names : SubmitFeedbackEmpty(name)
    \/ \E name \in Names : Activate(name)
    \/ \E name \in Names : Pause(name)
    \/ \E name \in Names : Abandon(name)
    \/ \E name \in Names, raw \in in.plans : GenerateActionPlanOk(name, raw)
    \/ \E name \in Names, outcome \in Failures : GenerateActionPlanFail(name, outcome)
    \/ \E name \in Names, response \in PlainResponses, searches \in in.searches :
           GenerateTrendsOk(name, response, searches)
    \/ \E name \in Names, outcome \in Failures, searches \in in.searches :
           GenerateTrendsFail(name, outcome, searches)

Next == NextWith(Inputs)

Spec == Init /\ [][Next]_vars

\* one job name, and every kind of action plan the parser can return
InputsPlans == [Inputs EXCEPT !.names = {"A"}, !.plans = PlanResponsesAll]
NextPlans == NextWith(InputsPlans)
SpecPlans == Init /\ [][NextPlans]_vars

\* a store that was used before: its chat history holds an exchange of Mode 1
ExistingChat ==
    [mode1 |-> <<[role |-> "user", content |-> <<"H_profile">>],
                 [role |-> "assistant", content |-> <<"analysis_only">>]>>]
InitKept ==
    /\ career_targets = <<>>
    /\ progress_logs = <<>>
    /\ chat_history \in {<<>>, ExistingChat}
    /\ profile_data = EmptyProfile
    /\ current_view = "dashboard"
    /\ search_tool \in BOOLEAN
    /\ last_step = Step("start", "", "ok")
    /\ parse_arg = <<>>
    /\ parse_ret = "not called"

\* one job name, two profiles, a suggestion whose block is a list, two logs
InputsKept ==
    [Inputs EXCEPT !.names = {"A"},
                   !.profiles = ProfilesKept,
                   !.suggestions = SuggestionResponsesKept,
                   !.max_logs = MaxLogsKept]
NextKept == NextWith(InputsKept)
SpecKept == InitKept /\ [][NextKept]_vars

\* one job name, and every way the search queries can end
InputsSearch == [Inputs EXCEPT !.names = {"A"}, !.searches = AllSearches]
NextSearch == NextWith(InputsSearch)
SpecSearch == InitKept /\ [][NextSearch]_vars

(***************************************************************************)
(* extract_json_from_llm on its own: the texts of at most MaxLen tokens.   *)
(***************************************************************************)
\* the tokens of a text: prose (that is not JSON), the two fences, a JSON
\* document and white space
Tokens == {"prose", OPEN, CLOSE, "J_dict", WS}
Texts == UNION {[1..n -> Tokens] : n \in 0..MaxLen}

InitParser ==
    /\ career_targets = <<>>
    /\ progress_logs = <<>>
    /\ chat_history = <<>>
    /\ profile_data = EmptyProfile
    /\ current_view = "dashboard"
    /\ search_tool = FALSE
    /\ last_step = Step("start", "", "ok")
    /\ parse_arg \in Texts
    /\ parse_ret = "not called"

\* the call: what it returns, or the exception that leaves it
Parse ==
    /\ parse_ret = "not called"
    /\ parse_ret' = extract_json_from_llm(parse_arg)
    /\ UNCHANGED <<career_targets, progress_logs, chat_history, profile_data,
                   current_view, search_tool, last_step, parse_arg>>

NextParser == Parse
SpecParser == InitParser /\ [][NextParser]_vars

(***************************************************************************)
(* Properties.                                                             *)
(***************************************************************************)
Rows == {career_targets[i] : i \in Indices(career_targets)}
HasStatus(statuses) == \E t \in Rows : t.status \in statuses
Permuted(ts, p) == [i \in Indices(ts) |-> ts[p[i]]]
StepOk(op) == last_step.op = op /\ last_step.outcome = "ok"

\* C1: no two stored career targets have the same name, and a research step on
\* a name that has a target keeps the number of targets while a research step
\* on a new name adds exactly one target.
NoDuplicateNames ==
    \A i, j \in Indices(career_targets) :
        i /= j => career_targets[i].name /= career_targets[j].name
ResearchUpserts ==
    (last_step'.op = "research" /\ last_step'.outcome = "ok") =>
        LET n == last_step'.name
            before == {i \in Indices(career_targets) : career_targets[i].name = n}
            after == {i \in Indices(career_targets') : career_targets'[i].name = n}
        IN /\ Cardinality(after) = 1
           /\ Len(career_targets') = Len(career_targets) + (IF before = {} THEN 1 ELSE 0)
           /\ \A i \in Indices(career_targets) : career_targets'[i].name = career_targets[i].name
C1_UniqueTargetNames == []NoDuplicateNames /\ [][ResearchUpserts]_vars
\* a research step has just run on a name whose target existed before (it
\* carries a validation plan, which a new target never does)
C1_Witness ==
    /\ StepOk("research")
    /\ \E t \in Rows : t.name = last_step.name /\ truthy_text(t.validation_plan)
    /\ Len(career_targets) = 2

\* C2: at the dashboard, in the sidebar and in the guide of Mode 1, Mode 2 is
\* computed as unlocked exactly when some target has a status in {researching,
\* active, paused, planning_done}; it is locked with no targets, and the result
\* is the same for every order of the targets.
C2_Mode2Unlock ==
    /\ dash_is_mode2_enabled = HasStatus({"researching", "active", "paused", "planning_done"})
    /\ nav_is_mode2_enabled = HasStatus({"researching", "active", "paused", "planning_done"})
    /\ m1_is_mode2_enabled = HasStatus({"researching", "active", "paused", "planning_done"})
    /\ career_targets = <<>> =>
           ~dash_is_mode2_enabled /\ ~nav_is_mode2_enabled /\ ~m1_is_mode2_enabled
    /\ \A p \in Permutations(Indices(career_targets)) :
           any_status(Permuted(career_targets, p), MODE2_STATUSES) = nav_is_mode2_enabled
\* Mode 2 is unlocked by two targets of which the first does not qualify for Mode 3
C2_Witness ==
    /\ Len(career_targets) = 2
    /\ career_targets[1].status = "paused"
    /\ career_targets[2].status = "planning_done"
    /\ nav_is_mode2_enabled /\ dash_is_mode2_enabled /\ m1_is_mode2_enabled

Relocked ==
    \/ nav_is_mode2_enabled /\ ~nav_is_mode2_enabled'
    \/ nav_is_mode3_enabled /\ ~nav_is_mode3_enabled'
    \/ nav_is_mode4_enabled /\ ~nav_is_mode4_enabled'
C5_Original == [][Relocked => last_step'.op \in {"pause", "abandon"}]_vars
\* C5 as amended: a step that turns Mode 2, Mode 3 or Mode 4 from unlocked to
\* locked is a pause, an abandon, or a research step on the name of an existing
\* target, which sets its status back to researching.
C5_RelockOnlyBy ==
    [][Relocked =>
          \/ last_step'.op \in {"pause", "abandon"}
          \/ /\ last_step'.op = "research"
             /\ \E t \in Rows : t.name = last_step'.name /\ t.status \in MODE3_STATUSES]_vars
\* a research step has just put the only planned target back to researching:
\* Mode 3 and Mode 4 are locked again
C5_Witness ==
    /\ StepOk("research")
    /\ \E t \in Rows : /\ t.name = last_step.name
                       /\ t.status = "researching"
                       /\ isinstance_dict(t.action_plan)
    /\ ~nav_is_mode3_enabled /\ ~nav_is_mode4_enabled

\* C6: a research, validation-plan, feedback, action-plan or trend-report step
\* whose LLM call fails leaves the targets with all their fields, the progress
\* logs and the chat history as they were.
LLMSteps == {"research", "validation_plan", "feedback", "action_plan", "trends"}
C7_Original == last_step.outcome /= "uncaught"

\* C8: every change of the status of an existing target is researching to active,
\* paused to active, researching to paused, active to paused, active to
\* planning_done, or to researching by a research step on its name; a new
\* target starts in researching and every status is one of the four.
AllowedChange(old, new) ==
    <<old, new>> \in {<<"researching", "active">>, <<"paused", "active">>,
                      <<"researching", "paused">>, <<"active", "paused">>,
                      <<"active", "planning_done">>}
StatusChanges ==
    /\ \A t \in Rows : \A i \in Indices(career_targets') :
           LET u == career_targets'[i]
           IN (u.name = t.name /\ u.status /= t.status) =>
                 \/ AllowedChange(t.status, u.status)
                 \/ /\ u.status = "researching"
                    /\ last_step'.op = "research" /\ last_step'.name = t.name
    /\ \A i \in Indices(career_targets') :
           LET u == career_targets'[i]
           IN /\ u.status \in Statuses
              /\ (\A t \in Rows : t.name /= u.name) => u.status = "researching"
C8_StatusTransitions == [][StatusChanges]_vars
\* an action plan has just been generated: a target went from active to
\* planning_done, beside a paused one
C8_Witness ==
    /\ StepOk("action_plan")
    /\ \E t \in Rows : t.name = last_step.name /\ t.status = "planning_done"
    /\ HasStatus({"paused"})

\* C9 as stated: in the view of Mode 2, the abandon button is available for
\* every existing target, whatever its status.
C9_Original ==
    (current_view = "mode2" /\ ~script_aborted) =>
        \A i \in Indices(career_targets) :
            /\ decision_offered(career_targets[i].name)
            /\ option_target(career_targets, EVAL_STATUSES, career_targets[i].name) = i

\* C10: abandoning a target removes exactly that target and leaves the other
\* targets, every progress-log entry (also those that carry the name of the
\* abandoned target), the profile and the chat history unchanged.
AbandonFrame ==
    last_step'.op = "abandon" =>
        /\ Len(career_targets') = Len(career_targets) - 1
        /\ \A u \in {career_targets'[i] : i \in Indices(career_targets')} :
               u.name /= last_step'.name /\ u \in Rows
        /\ \A t \in Rows : t.name /= last_step'.name =>
               \E i \in Indices(career_targets') : career_targets'[i] = t
        /\ progress_logs' = progress_logs
        /\ profile_data' = profile_data
        /\ chat_history' = chat_history
C10_AbandonKeepsLogs == [][AbandonFrame]_vars
\* a target with a progress log has just been abandoned: the log is still
\* there, the target is not, another target is
C10_Witness ==
    /\ StepOk("abandon")
    /\ \E k \in 1..Len(progress_logs) : progress_logs[k].target_name = last_step.name
    /\ \A t \in Rows : t.name /= last_step.name
    /\ career_targets /= <<>>

\* C11: a pause and an activation each leave the name, the research report, the
\* chart data, the validation plan and the action plan of the target as they
\* were, and leave every other target as it was; so pausing a target and then
\* activating it again changes nothing of it but its status.
StatusOnly ==
    last_step'.op \in {"pause", "activate"} =>
        /\ Len(career_targets') = Len(career_targets)
        /\ \A i \in Indices(career_targets) :
               LET t == career_targets[i]
                   u == career_targets'[i]
               IN /\ u.name = t.name
                  /\ u.research_report = t.research_report
                  /\ u.research_chart_data = t.research_chart_data
                  /\ u.validation_plan = t.validation_plan
                  /\ u.action_plan = t.action_plan
                  /\ t.name /= last_step'.name => u = t
                  /\ t.name = last_step'.name =>
                         u.status = (IF last_step'.op = "pause" THEN "paused" ELSE "active")
C11_PauseActivateKeepsData == [][StatusOnly]_vars
\* a target that carries a report with chart data, a validation plan and an
\* action plan has just been activated
C11_Witness ==
    /\ StepOk("activate")
    /\ \E t \in Rows : /\ t.name = last_step.name
                       /\ t.status = "active"
                       /\ t.research_chart_data = "dict"
                       /\ truthy_text(t.validation_plan)
                       /\ t.action_plan = "dict"

\* C12: a research step that succeeds on the name of an existing target sets
\* the research report of that target to the text of the new report and its
\* chart data to the JSON block of the new report (none when the report has no
\* block), sets its status to researching whatever the status was, and leaves
\* its validation plan and its action plan as they were.
NewReport(raw) ==
    CASE raw = <<"report1", OPEN, "J_dict", CLOSE>> -> <<"report1">>
      [] raw = <<"report2">> -> <<"report2">>
      [] raw = SEARCH_UNAVAILABLE -> SEARCH_UNAVAILABLE
NewChart(raw) ==
    CASE raw = <<"report1", OPEN, "J_dict", CLOSE>> -> "dict"
      [] raw = <<"report2">> -> None
      [] raw = SEARCH_UNAVAILABLE -> None
ResearchOverwrites ==
    (last_step'.op = "research" /\ last_step'.outcome = "ok") =>
        \A i \in Indices(career_targets) :
            LET t == career_targets[i]
                u == career_targets'[i]
            IN t.name = last_step'.name =>
                  /\ u.name = t.name
                  /\ u.research_report = NewReport(last_step'.reply)
                  /\ u.research_chart_data = NewChart(last_step'.reply)
                  /\ u.status = "researching"
                  /\ u.validation_plan = t.validation_plan
                  /\ u.action_plan = t.action_plan
C12_ResearchOverwrites == [][ResearchOverwrites]_vars
\* a report without a JSON block has just been stored on a target that had
\* come to an action plan: the chart data is none, the plans are still there
C12_Witness ==
    /\ StepOk("research")
    /\ last_step.reply = <<"report2">>
    /\ \E t \in Rows : /\ t.name = last_step.name
                       /\ t.research_report = <<"report2">>
                       /\ t.research_chart_data = None
                       /\ t.status = "researching"
                       /\ truthy_text(t.validation_plan)
                       /\ t.action_plan = "dict"

\* C13 as stated: in every reachable state, a target that holds a structured
\* (dictionary) action plan has status planning_done.
C13_Original ==
    \A t \in Rows : isinstance_dict(t.action_plan) => t.status = "planning_done"
\* C13 as amended: a target comes to hold a structured action plan only in a
\* step that leaves it in planning_done, and a target that holds a structured
\* plan leaves planning_done only by a research step on its name, which puts
\* it in researching and keeps the plan.
PlanAndStatus ==
    \A i \in Indices(career_targets') :
        LET u == career_targets'[i]
        IN (isinstance_dict(u.action_plan) /\ u.status /= "planning_done") =>
              \E t \in Rows :
                  /\ t.name = u.name
                  /\ t.action_plan = u.action_plan
                  /\ t.status = "planning_done" =>
                         /\ last_step'.op = "research"
                         /\ last_step'.name = u.name
                         /\ u.status = "researching"
C13_PlanAndStatus == [][PlanAndStatus]_vars
\* a target with a structured plan has just been paused
C13_Witness ==
    /\ StepOk("pause")
    /\ \E t \in Rows : /\ t.name = last_step.name
                       /\ t.status = "paused"
                       /\ isinstance_dict(t.action_plan)

\* C14 as stated: for a target selected in Mode 3, the generation of the action
\* plan is offered exactly when the action plan is absent or a string.
PlanOf(i) == career_targets[i].action_plan
C14_Original ==
    \A i \in listed(career_targets, ACTIVE_STATUSES) :
        plan_button_offered(career_targets[i]) <=>
            (PlanOf(i) = None \/ isinstance_str(PlanOf(i)))
\* C14 as amended: for a target selected in Mode 3, the generation of the
\* action plan is offered exactly when the action plan is absent, empty (an
\* empty dictionary) or a string; an action plan is generated only for a
\* target whose plan is one of these; and once a target holds a non-empty
\* dictionary as its plan, no step changes the plan.
OfferedIff ==
    \A i \in listed(career_targets, ACTIVE_STATUSES) :
        plan_button_offered(career_targets[i]) <=>
            (PlanOf(i) = None \/ PlanOf(i) = "emptydict" \/ isinstance_str(PlanOf(i)))
GeneratedWhenOffered ==
    last_step'.op = "action_plan" =>
        \E t \in Rows : /\ t.name = last_step'.name
                         /\ t.action_plan \in {None, "emptydict", "str:foo"}
StructuredPlanKept ==
    \A t \in Rows : t.action_plan = "dict" =>
        \A i \in Indices(career_targets') :
            career_targets'[i].name = t.name => career_targets'[i].action_plan = "dict"
C14_PlanGeneration ==
    []OfferedIff /\ [][GeneratedWhenOffered /\ StructuredPlanKept]_vars
\* in Mode 3, a plan has just been generated and stored as an empty
\* dictionary: the generation is offered again
C14_Witness ==
    /\ current_view = "mode3"
    /\ StepOk("action_plan")
    /\ \E i \in listed(career_targets, ACTIVE_STATUSES) :
           /\ career_targets[i].name = last_step.name
           /\ PlanOf(i) = "emptydict"
           /\ plan_button_offered(career_targets[i])

\* C15: a validation plan is generated only for a target whose validation plan
\* is absent, the generation stores the text the LLM returned, and once a
\* target holds a validation plan no step (research on its name, activate,
\* pause, feedback, action plan, trend report) changes or clears it while the
\* target exists; so a validation plan is generated at most once per target.
ValidationPlanOnce ==
    /\ last_step'.op = "validation_plan" =>
           \E t \in Rows : /\ t.name = last_step'.name
                            /\ ~truthy_text(t.validation_plan)
    /\ (last_step'.op = "validation_plan" /\ last_step'.outcome = "ok") =>
           \E i \in Indices(career_targets') :
               /\ career_targets'[i].name = last_step'.name
               /\ career_targets'[i].validation_plan = last_step'.reply
               /\ truthy_text(last_step'.reply)
    /\ \A t \in Rows : truthy_text(t.validation_plan) =>
           \A i \in Indices(career_targets') :
               career_targets'[i].name = t.name =>
                   career_targets'[i].validation_plan = t.validation_plan
LogsAppendOnly ==
    /\ Len(progress_logs') >= Len(progress_logs)
    /\ SubSeq(progress_logs', 1, Len(progress_logs)) = progress_logs
    /\ IF last_step'.op = "feedback" /\ last_step'.outcome = "ok"
       THEN /\ Len(progress_logs') = Len(progress_logs) + 1
            /\ progress_logs'[Len(progress_logs')].target_name = last_step'.name
            /\ \E i \in listed(career_targets, EVAL_STATUSES) :
                   career_targets[i].name = last_step'.name
       ELSE progress_logs' = progress_logs
C16_LogsAppendOnly == [][LogsAppendOnly]_vars
\* a second feedback has just been logged, and the first entry is still the
\* first
C16_Witness ==
    /\ StepOk("feedback")
    /\ Len(progress_logs) = 2
    /\ progress_logs[1].id = 1
    /\ progress_logs[2].id = 2
    /\ progress_logs[2].target_name = last_step.name

\* C17: the chat history is append-only per mode: every step leaves the
\* transcript of a mode as it was or appends exactly two entries to it, a user
\* entry and then an assistant entry, and only to the transcript of the mode
\* the step ran in; no transcript is removed; so every transcript has an even
\* length with the roles alternating user, assistant.
Transcript(history, k) == dict_get(history, k)
ChatAppendOnly ==
    /\ DOMAIN chat_history \subseteq DOMAIN chat_history'
    /\ \A k \in DOMAIN chat_history' :
           LET old == Transcript(chat_history, k)
               new == Transcript(chat_history', k)
           IN \/ new = old
              \/ /\ Len(new) = Len(old) + 2
                 /\ SubSeq(new, 1, Len(old)) = old
                 /\ new[Len(old) + 1].role = "user"
                 /\ new[Len(old) + 2].role = "assistant"
                 /\ k = current_view
                 /\ current_view' = current_view
                 /\ last_step'.outcome = "ok"
                 /\ \A j \in DOMAIN chat_history' \ {k} :
                        Transcript(chat_history', j) = Transcript(chat_history, j)
RolesAlternate ==
    \A k \in DOMAIN chat_history :
        /\ Len(chat_history[k]) % 2 = 0
        /\ \A i \in 1..Len(chat_history[k]) :
               chat_history[k][i].role = (IF i % 2 = 1 THEN "user" ELSE "assistant")
C17_ChatAppendOnly == []RolesAlternate /\ [][ChatAppendOnly]_vars
\* a feedback has just opened the transcript of Mode 2 with its exchange; the
\* transcript of Mode 1 holds the exchange that was there and, after it, the
\* exchange of a research
C17_Witness ==
    /\ StepOk("feedback")
    /\ DOMAIN chat_history = {"mode1", "mode2"}
    /\ Len(chat_history["mode1"]) = 4
    /\ SubSeq(chat_history["mode1"], 1, 2) = ExistingChat["mode1"]
    /\ chat_history["mode1"][3].content = <<"H_research", last_step.name>>
    /\ Len(chat_history["mode2"]) = 2
    /\ chat_history["mode2"][2].content = last_step.reply

\* C20: after a submission of the profile form the stored profile is the
\* submitted one, whether the generation of the suggestions succeeded, timed
\* out or failed otherwise; and a submission whose suggestions failed leaves
\* the chat history as it was.
ProfileStoredFirst ==
    last_step'.op = "suggest" =>
        /\ profile_data' = last_step'.name
        /\ last_step'.outcome /= "ok" => chat_history' = chat_history
C20_ProfileStoredFirst == [][ProfileStoredFirst]_vars
\* the suggestions have just failed for the second profile, in a store whose
\* chat history is not empty: the profile is stored, the history is as it was
C20_Witness ==
    /\ last_step.op = "suggest"
    /\ last_step.outcome = "error_shown"
    /\ last_step.name = "profile2"
    /\ profile_data = "profile2"
    /\ chat_history = ExistingChat

\* C18: in a research step and in a trend-report step with the search provider
\* configured, however the three queries end, the LLM is invoked exactly once,
\* the search context it is given is made of the snippets of the queries that
\* did not fail, in the order of the queries (the fixed text for no
\* information when there is no snippet), and a step whose LLM call returns
\* saves its result: the research in the target, the trend report in the
\* transcript of Mode 4 of a store that has a chat history.
SnippetsOf(q, how) ==
    CASE how = "hits" -> << <<"snippet", q, 1>>, <<"snippet", q, 2>> >>
      [] how = "partial" -> << <<"snippet", q, 2>> >>
      [] how = "empty" -> <<>>
      [] how = "failed" -> <<>>
ExpectedContext(searches) ==
    LET found == SnippetsOf(1, searches[1]) \o SnippetsOf(2, searches[2])
                    \o SnippetsOf(3, searches[3])
    IN IF found = <<>> THEN NO_INFO ELSE found
SearchFailuresTolerated ==
    (last_step'.op \in {"research", "trends"} /\ search_tool) =>
        /\ last_step'.searches \in AllSearches
        /\ Len(last_step'.llm_calls) = 1
        /\ last_step'.llm_calls[1] = ExpectedContext(last_step'.searches)
        /\ (last_step'.op = "research" /\ last_step'.outcome = "ok") =>
               \E i \in Indices(career_targets') :
                   /\ career_targets'[i].name = last_step'.name
                   /\ career_targets'[i].research_report = NewReport(last_step'.reply)
                   /\ career_targets'[i].research_chart_data = NewChart(last_step'.reply)
        /\ (last_step'.op = "trends" /\ last_step'.outcome = "ok") =>
               /\ last_step'.reply \in PlainResponses
               /\ DOMAIN chat_history /= {} =>
                      LET new == Transcript(chat_history', "mode4")
                      IN /\ Len(new) = Len(Transcript(chat_history, "mode4")) + 2
                         /\ new[Len(new)].content = last_step'.reply
Fences(text) == {j \in 1..Len(text) : text[j] \in {OPEN, CLOSE}}
Opens(text) == {i \in 1..Len(text) : text[i] = OPEN}
Least(S) == CHOOSE x \in S : \A y \in S : x <= y
HasBlock(text) ==
    \E i \in Opens(text) : \E j \in Fences(text) : i < j
FirstBlock(text) ==
    LET i == Least(Opens(text))
        j == Least({k \in Fences(text) : k > i})
    IN [k \in 1..(j - i - 1) |-> text[i + k]]
ValidJson(content) ==
    /\ \E k \in 1..Len(content) : content[k] = "J_dict"
    /\ \A k \in 1..Len(content) : content[k] \in {"J_dict", WS}
    /\ Cardinality({k \in 1..Len(content) : content[k] = "J_dict"}) = 1
ParserResult ==
    parse_ret /= "not called" =>
        /\ parse_ret /= JSONDecodeError
        /\ parse_ret = IF HasBlock(parse_arg) /\ ValidJson(FirstBlock(parse_arg))
                       THEN "dict"
                       ELSE None
C19_ParserResult == ParserResult
\* the parser has returned none for a text whose first block is not JSON and
\* whose second block is
C19_Witness ==
    /\ parse_arg = <<OPEN, "prose", CLOSE, OPEN, "J_dict", CLOSE>>
    /\ parse_ret = None

\* C21: the assistant entry of every exchange recorded in the chat history
\* holds the raw text the service returned for it, the fenced JSON block
\* included.  This holds for the suggestions, the feedback analysis, the action
\* plan and the trend report; the entry of a research holds the part of the
\* raw text before the first opening fence only.
Recorded(k) ==
    Len(Transcript(chat_history', k)) = Len(Transcript(chat_history, k)) + 2
Answer(k) == chat_history'[k][Len(chat_history'[k])].content
BeforeFence(raw) ==
    IF Opens(raw) = {} THEN raw
    ELSE [i \in 1..(Least(Opens(raw)) - 1) |-> raw[i]]
RawRecorded ==
    \A k \in DOMAIN chat_history' :
        Recorded(k) => Answer(k) = last_step'.reply
RecordedText ==
    \A k \in DOMAIN chat_history' :
        Recorded(k) =>
            /\ last_step'.op \in {"suggest", "research", "feedback", "action_plan", "trends"}
            /\ last_step'.op /= "research" => Answer(k) = last_step'.reply
            /\ last_step'.op = "research" => Answer(k) = BeforeFence(last_step'.reply)
C22_Original ==
    \A t \in Rows : t.status = "planning_done" => isinstance_dict(t.action_plan)

\* C23 as stated: whenever Mode 2 is unlocked (some target has a status in
\* researching, active, paused, planning_done), the list of targets that can
\* be selected in Mode 2 is not empty.
C23_Original ==
    nav_is_mode2_enabled => Len(targets_for_eval) > 0

\* C24 as stated: in every reachable state the current view is the dashboard
\* or a mode that is unlocked in that state.
UnlockedIn(view, ts) ==
    CASE view \in {"dashboard", "mode1"} -> TRUE
      [] view = "mode2" ->
             \E i \in Indices(ts) :
                 ts[i].status \in {"researching", "active", "paused", "planning_done"}
      [] view \in {"mode3", "mode4"} ->
             \E i \in Indices(ts) : ts[i].status \in {"active", "planning_done"}
EnteredUnlocked ==
    current_view' /= current_view =>
        /\ UnlockedIn(current_view', career_targets)
        /\ UnlockedIn(current_view', career_targets')
LockedInside ==
    (UnlockedIn(current_view, career_targets) /\ ~UnlockedIn(current_view', career_targets')) =>
        /\ last_step'.op = "abandon"
        /\ current_view = "mode2"
        /\ current_view' = "mode2"
        /\ career_targets' = <<>>
ViewUnlocked ==
    \/ UnlockedIn(current_view, career_targets)
    \/ current_view = "mode2" /\ career_targets = <<>> /\ targets_for_eval = <<>>
ResearchNeedsLLM ==
    last_step'.op = "research" =>
        /\ career_targets' /= career_targets => last_step'.llm_calls /= <<>>
        /\ last_step'.reply = SEARCH_UNAVAILABLE =>
               /\ career_targets' = career_targets
               /\ chat_history' = chat_history
C25_Original == [][ResearchNeedsLLM]_vars

\* C26: every progress log is created for a target that exists at that moment
\* with a status in researching, active, paused and with a stored validation
\* plan; a target comes to hold a validation plan only by the generation of
\* the validation plan for it, so that generation precedes every log recorded
\* for the target.
LogForPlannedTarget ==
    Len(progress_logs') > Len(progress_logs) =>
        /\ last_step'.op = "feedback"
        /\ progress_logs'[Len(progress_logs')].target_name = last_step'.name
        /\ \E t \in Rows :
               /\ t.name = last_step'.name
               /\ t.status \in {"researching", "active", "paused"}
               /\ t.validation_plan /= NoText
               /\ t.validation_plan /= <<>>
PlanOnlyGenerated ==
    \A i \in Indices(career_targets') :
        career_targets'[i].validation_plan \notin {NoText, <<>>} =>
            \/ \E t \in Rows : /\ t.name = career_targets'[i].name
                               /\ t.validation_plan = career_targets'[i].validation_plan
            \/ /\ last_step'.op = "validation_plan"
               /\ last_step'.outcome = "ok"
               /\ last_step'.name = career_targets'[i].name
C26_LogAfterValidationPlan == [][LogForPlannedTarget /\ PlanOnlyGenerated]_vars
\* a feedback has just been logged for a target that holds a validation plan,
\* while another target holds none
C26_Witness ==
    /\ StepOk("feedback")
    /\ Len(progress_logs) = 1
    /\ progress_logs[1].target_name = last_step.name
    /\ \E t \in Rows : t.name = last_step.name /\ t.validation_plan = <<"text">>
    /\ \E t \in Rows : t.name /= last_step.name /\ t.validation_plan = NoText

\* C27 as stated: for every target that can be selected in Mode 3 (status
\* active or planning_done), whatever its action plan holds, the view of Mode 3
\* offers the generation of the action plan or displays the stored plan.
C27_Original ==
    \A i \in listed(career_targets, ACTIVE_STATUSES) :
        plan_button_offered(career_targets[i]) \/ plan_displayed(career_targets[i])

====
